---- MODULE Spec2Model ----
(***************************************************************************)
(* A model of KDSpeechSynth's dependencies:                                *)
(*   KDHistory (deps/KDHistory.ts) - Array subclass with a maximum size,   *)
(*   KDLoop    (deps/KDLoop.ts)    - breakable callback loop.              *)
(* Each component has its own specification (SpecHistory, SpecLoop,        *)
(* FairSpecLoop); Spec is their interleaving.                              *)
(***************************************************************************)
EXTENDS Integers, Sequences, FiniteSets, TLC

VARIABLES
    \* ---- KDHistory instance ----
    hist,         \* the array's elements, oldest first (this[0..length-1])
    hmax,         \* the closure variable `max` of the KDHistory constructor
    hret,         \* the value returned by the last max(...) / push(...) call
    hop,          \* the last operation called: "new", "max" or "push"
    harg,         \* the argument of the last call: max's size, or the array of push's items
    pushed,       \* every item handed to push so far, in order
    onePerCall,   \* TRUE while every push call so far carried exactly one item
    capMoved,     \* TRUE once max(size) changed the capacity after a push
    hcalls,       \* number of calls made on the instance
    \* ---- the array handed out by history() ----
    snap,         \* the elements of the array returned by the last history() call
    snapRefs,     \* per element of snap: the index in hist of the same object, 0 if none
    \* ---- KDLoop instance and the timer queue of the host ----
    attemptsArg,  \* params.attempts as given to the constructor
    breakAt,      \* the callback calls loop.break() in its breakAt-th invocation (0: never)
    rerunAt,      \* the callback calls loop.run() in its rerunAt-th invocation (0: never)
    loopMax,      \* this.max
    remaining,    \* this.remaining
    intervalInMs, \* this.intervalInMs
    qualifier,    \* the closure variable `qualifier`
    timers,       \* number of pending setTimeout(() => this.run()) timers
    log,          \* one record per callback invocation: what the handle exposed
    turn,         \* number of the current scheduler task
    runCalls,     \* number of run() calls made from outside the loop
    breakCalls,   \* number of break() calls made from outside the callback
    extBreakAt,   \* Len(log) when break() was first called from outside, -1 before
    cbBroke,      \* TRUE once the callback has called loop.break()
    \* ---- the readiness poll of a KDSpeechSynth ----
    poll,         \* TRUE when the loop's callback is the cb of init.onReadyCheck
    ready,        \* self.ready
    checks,       \* one record per run of cb: what it saw and did
    voiceEvents,  \* number of voiceschanged events delivered
    \* ---- one value handed to the predicates of check ----
    cval,         \* the value t
    cpred,        \* the predicate of the last call, "none" before the first
    carg,         \* its second argument (a key, a function, a constructor)
    cres,         \* how the last call ended
    \* ---- one KDSpeechSynth and the platform's speech synthesis ----
    selfText,     \* self.text
    selfVoice,    \* self.voice
    selfRate,     \* self.rate
    selfPitch,    \* self.pitch
    selfVolume,   \* self.volume
    selfMaxHistory, \* self.maxHistory
    capSet,       \* the n of the last maxHistory(n), n a positive safe integer; 0 before
    voices,       \* _self.voices.length
    selfOnVoicesChanged, \* self.onVoicesChanged
    callsBack,    \* speechSynthesis.onvoiceschanged is the handler that calls it
    heard,        \* what self.onVoicesChanged found when it last ran: <<voices, ready>>
    utterances,   \* the platform's queue, the utterance being spoken first
    paused,       \* speechSynthesis.paused
    fop,          \* the last call of the facade, or the last platform event
    farg,         \* its arguments
    fret          \* what it returned

histVars == <<hist, hmax, hret, hop, harg, pushed, onePerCall, capMoved, hcalls>>
loopVars == <<attemptsArg, breakAt, rerunAt, loopMax, remaining, intervalInMs, qualifier,
              timers, log, turn, runCalls, breakCalls, extBreakAt, cbBroke,
              poll, ready, checks, voiceEvents>>
snapVars == <<snap, snapRefs>>
checkVars == <<cval, cpred, carg, cres>>
settingVars == <<selfText, selfVoice, selfRate, selfPitch, selfVolume>>
voiceCbVars == <<selfOnVoicesChanged, callsBack, heard>>
synthVars == <<settingVars, selfMaxHistory, capSet, voices, voiceCbVars, utterances, paused,
               fop, farg, fret>>
vars == <<histVars, snapVars, loopVars, checkVars, synthVars>>

-----------------------------------------------------------------------------
(* Bounds of the model *)
MaxItems == 2        \* distinct item values handed to push
MaxBatch == 2        \* items in one push call
MaxPushed == 4       \* items handed to push on one instance, all calls together
MaxHistCalls == 4    \* calls on one KDHistory instance
MaxCap == 2          \* largest capacity handed to max(size)
MaxAttempts == 3     \* largest params.attempts
MaxRunCalls == 2     \* run() calls from outside
MaxBreakCalls == 1   \* break() calls from outside
MaxVoiceEvents == 2  \* voiceschanged events delivered to one KDSpeechSynth
MaxQueued == 2       \* utterances in the platform's queue
MaxSpoken == 2       \* entries of the history of a KDSpeechSynth
MaxVoices == 1       \* voices the platform has

(* Number.MAX_SAFE_INTEGER is 2^53 - 1; TLC's integers are 32 bits wide, so *)
(* the model uses the largest value they hold. No length, capacity argument *)
(* or counter of the model comes near either value.                         *)
MAX_SAFE_INTEGER == 2147483647

-----------------------------------------------------------------------------
(* JavaScript values. Every value is a record of one shape, so that any two *)
(* can be compared: kind is the runtime type, n the payload of a number or  *)
(* the identity of a string, elems the elements of an array.                *)
JSVal(k, n, e) == [kind |-> k, n |-> n, elems |-> e]
JSUndefined == JSVal("undefined", 0, <<>>)
JSNull == JSVal("null", 0, <<>>)
JSInt(n) == JSVal("int", n, <<>>)          \* the integer n
JSFrac(n) == JSVal("frac", n, <<>>)        \* the number n + 0.5
JSNaN == JSVal("nan", 0, <<>>)
JSInfinity == JSVal("inf", 1, <<>>)
JSBigInt == JSVal("unsafe", 1, <<>>)       \* an integer above MAX_SAFE_INTEGER
JSString(n) == JSVal("string", n, <<>>)    \* JSString(0) is ""
JSArray(e) == JSVal("array", 0, e)
JSTenths(n) == JSVal("tenths", n, <<>>)    \* the number n / 10, n no multiple of 5
JSNegInfinity == JSVal("inf", -1, <<>>)
JSNegBigInt == JSVal("unsafe", -1, <<>>)   \* an integer below MIN_SAFE_INTEGER
JSBool(b) == JSVal("boolean", IF b THEN 1 ELSE 0, <<>>)
JSFunction == JSVal("function", 0, <<>>)   \* function () {}
\* Objects: e is empty, or <<v>> for an own property a holding v
JSObject(e) == JSVal("object", 0, e)       \* an object literal
JSInstance(e) == JSVal("instance", 0, e)   \* new Foo()
JSNullProto(e) == JSVal("nullproto", 0, e) \* Object.create(null)
JSThrowing == JSVal("throwing", 0, <<>>)   \* a Proxy whose every trap throws
\* { hasOwnProperty: () => v } for e = <<v>>, one that throws for e = <<>>
JSShadow(e) == JSVal("shadow", 0, e)

(* Mutant of IsSafeInteger: any value of type number passes *)
IsSafeInteger_AnyNumber(v) == v.kind \in {"int", "frac", "nan", "inf", "unsafe"}

(* Number.isSafeInteger(v) *)
IsSafeInteger(v) ==
    /\ v.kind = "int"
    /\ -MAX_SAFE_INTEGER <= v.n
    /\ v.n <= MAX_SAFE_INTEGER

(* ToBoolean(v), as applied by `v ? a : b` *)
ToBoolean(v) ==
    CASE v.kind \in {"undefined", "null", "nan"} -> FALSE
      [] v.kind \in {"int", "string", "boolean", "tenths"} -> v.n # 0
      [] OTHER -> TRUE

Min(a, b) == IF a <= b THEN a ELSE b

-----------------------------------------------------------------------------
(* KDHistory *)

Items == {JSString(i) : i \in 1..MaxItems}

RECURSIVE SeqsUpTo(_, _)
SeqsUpTo(S, n) ==
    IF n = 0 THEN {<<>>}
    ELSE LET shorter == SeqsUpTo(S, n - 1)
         IN shorter \cup {Append(q, x) : q \in {r \in shorter : Len(r) = n - 1}, x \in S}

(* The argument lists of push(...items) *)
Batches == SeqsUpTo(Items, MaxBatch)

(* The arguments of max(size): none, safe integers, and values that are not *)
(* safe integers.                                                           *)
SizeArgs ==
    {JSUndefined, JSNull, JSNaN, JSInfinity, JSBigInt, JSFrac(1), JSString(1)}
        \cup {JSInt(n) : n \in -1..MaxCap}

(* Array.prototype.shift: removes the first element; an empty array stays empty *)
Shift(arr) == IF arr = <<>> THEN <<>> ELSE Tail(arr)

(* while (count--) if (this.length >= max) this.shift(); *)
RECURSIVE ShiftWhileFull(_, _, _)
ShiftWhileFull(arr, count, max) ==
    IF count = 0 THEN arr
    ELSE ShiftWhileFull(IF Len(arr) >= max THEN Shift(arr) ELSE arr, count - 1, max)

(* super.push(items): the rest parameter `items` is handed over as one      *)
(* argument, so what is appended is one element, the array of the items.    *)
SuperPushArgs(items) == <<JSArray(items)>>

(* this.push = (...items) => { ... } : the array after the call *)
PushResult(arr, items, max) ==
    ShiftWhileFull(arr, Len(items), max) \o SuperPushArgs(items)

(* Mutant of MaxResult: `if (size)` in place of `if (size !== undefined)` *)
MaxResult_Truthy(max, size) ==
    IF ToBoolean(size)
    THEN IF IsSafeInteger(size) THEN size.n ELSE max
    ELSE max

(* this.max = (size) => { ... } : the closure variable after the call *)
MaxResult(max, size) ==
    IF size # JSUndefined
    THEN IF IsSafeInteger(size) THEN size.n ELSE max
    ELSE max

HistoryInit ==
    /\ hist = <<>>
    /\ hmax = MAX_SAFE_INTEGER
    /\ hret = 0
    /\ hop = "new"
    /\ harg = JSUndefined
    /\ pushed = <<>>
    /\ onePerCall = TRUE
    /\ capMoved = FALSE
    /\ hcalls = 0

HistoryMax(size) ==
    /\ hcalls < MaxHistCalls
    /\ hmax' = MaxResult(hmax, size)
    /\ hret' = hmax'
    /\ hop' = "max"
    /\ harg' = size
    /\ capMoved' = (capMoved \/ (pushed # <<>> /\ hmax' # hmax))
    /\ hcalls' = hcalls + 1
    /\ UNCHANGED <<hist, pushed, onePerCall>>

HistoryPush(items) ==
    /\ hcalls < MaxHistCalls
    /\ Len(pushed) + Len(items) <= MaxPushed
    /\ hist' = PushResult(hist, items, hmax)
    /\ hret' = Len(hist')
    /\ hop' = "push"
    /\ harg' = JSArray(items)
    /\ pushed' = pushed \o items
    /\ onePerCall' = (onePerCall /\ Len(items) = 1)
    /\ hcalls' = hcalls + 1
    /\ UNCHANGED <<hmax, capMoved>>

HistoryNext ==
    \/ \E size \in SizeArgs : HistoryMax(size)
    \/ \E items \in Batches : HistoryPush(items)

-----------------------------------------------------------------------------
(* history: () => Array.from(self.history), and what a caller can do to the *)
(* array it gets. Array.from builds a new array holding the same elements:  *)
(* an element that is an object is shared with the internal history.        *)

SnapshotInit ==
    /\ snap = <<>>
    /\ snapRefs = <<>>

(* Array.from(arr): the elements of the new array *)
ArrayFrom(arr) == arr

(* History called through the facade's other methods, while a copy is out: *)
(* self.history.push(text). Elements shifted out are no longer internal.   *)
PushKeepingCopy(text) ==
    /\ HistoryPush(<<text>>)
    /\ LET shifted == Len(hist) + 1 - Len(hist')
       IN snapRefs' = [i \in 1..Len(snapRefs) |->
                         IF snapRefs[i] > shifted THEN snapRefs[i] - shifted ELSE 0]
    /\ UNCHANGED snap

(* history() *)
History ==
    /\ hcalls < MaxHistCalls
    /\ snap' = ArrayFrom(hist)
    /\ snapRefs' = [i \in 1..Len(hist) |-> i]
    /\ hop' = "history"
    /\ harg' = JSUndefined
    /\ hcalls' = hcalls + 1
    /\ UNCHANGED <<hist, hmax, hret, pushed, onePerCall, capMoved>>

(* What every call on the copy leaves alone *)
CopyCall(name) ==
    /\ hcalls < MaxHistCalls
    /\ hop' = name
    /\ harg' = JSUndefined
    /\ hcalls' = hcalls + 1
    /\ UNCHANGED <<hmax, hret, pushed, onePerCall, capMoved>>

(* copy.length = n *)
CopySetLength(n) ==
    /\ n < Len(snap)
    /\ CopyCall("copy.length=")
    /\ snap' = SubSeq(snap, 1, n)
    /\ snapRefs' = SubSeq(snapRefs, 1, n)
    /\ UNCHANGED hist

(* copy.reverse() *)
CopyReverse ==
    /\ Len(snap) >= 2
    /\ CopyCall("copy.reverse")
    /\ snap' = [i \in 1..Len(snap) |-> snap[Len(snap) + 1 - i]]
    /\ snapRefs' = [i \in 1..Len(snap) |-> snapRefs[Len(snap) + 1 - i]]
    /\ UNCHANGED hist

(* copy[i - 1] = v *)
CopySetEntry(i, v) ==
    /\ i <= Len(snap)
    /\ CopyCall("copy[i]=")
    /\ snap' = [snap EXCEPT ![i] = v]
    /\ snapRefs' = [snapRefs EXCEPT ![i] = 0]
    /\ UNCHANGED hist

(* copy[i - 1][0] = v, for an entry that is an array: the write goes to the *)
(* entry object, which the internal history holds too while it is there.    *)
CopyWriteInEntry(i, v) ==
    /\ i <= Len(snap)
    /\ snap[i].kind = "array"
    /\ CopyCall("copy[i][0]=")
    /\ LET elems == snap[i].elems
           written == JSArray(IF elems = <<>> THEN <<v>> ELSE [elems EXCEPT ![1] = v])
       IN /\ snap' = [snap EXCEPT ![i] = written]
          /\ hist' = IF snapRefs[i] > 0 THEN [hist EXCEPT ![snapRefs[i]] = written]
                     ELSE hist
    /\ UNCHANGED snapRefs

-----------------------------------------------------------------------------
(* KDLoop *)

(* The values of params.attempts and params.intervalInMs *)
AttemptsArgs == {JSUndefined} \cup {JSInt(n) : n \in -1..MaxAttempts}
IntervalArgs == {JSUndefined, JSInt(0), JSInt(20)}

(* const max = params.attempts ? params.attempts : 1; *)
MaxOf(attempts) == IF ToBoolean(attempts) THEN attempts.n ELSE 1

(* this.intervalInMs = params.intervalInMs ? params.intervalInMs : 0; *)
IntervalOf(interval) == IF ToBoolean(interval) THEN interval.n ELSE 0

(* Mutants of RunGuard: the comparison off by one; the break flag not read *)
RunGuard_OffByOne(rem, q) == rem >= 0 /\ q
RunGuard_NoQualifier(rem, q) == rem > 0

(* this.remaining-- > 0 && qualifier, on the value read before the decrement *)
RunGuard(rem, q) == rem > 0 /\ q

(* this.remaining--, the value stored *)
Decrement(rem) == rem - 1

(* Mutant of SetTimeout: the timer is not armed *)
SetTimeout_Dropped(pending) == pending

(* setTimeout(() => { this.run(); }, this.intervalInMs): one more pending timer *)
SetTimeout(pending) == pending + 1

(* Mutant of UsesTimer: every next attempt is deferred to a timer *)
UsesTimer_Always(interval) == TRUE

(* if (this.intervalInMs) { setTimeout(...) } else { this.run() } *)
UsesTimer(interval) == interval # 0

(* The part of the state one run() call reads and writes *)
LoopState == [remaining |-> remaining, qualifier |-> qualifier, timers |-> timers,
              log |-> log, cbBroke |-> cbBroke, checks |-> checks]

(* Mutant of Handle: the callback runs before the decrement is stored *)
Handle_BeforeDecrement(st, task, depth) ==
    [remaining |-> st.remaining + 1, max |-> loopMax, turn |-> task, depth |-> depth]

(* What the callback sees of the loop it is handed: loop.remaining and      *)
(* loop.max, with the task and the run() nesting depth it is invoked at.    *)
Handle(st, task, depth) ==
    [remaining |-> st.remaining, max |-> loopMax, turn |-> task, depth |-> depth]

(* if (!loop.remaining) console.log(`failed onReady callback ...`) *)
ReadyFailed(rem, isReady) == rem = 0

(* const cb = (loop) => { ... } of init.onReadyCheck:                       *)
(*   if (self.ready) { params.onReady(); loop.break(); }                    *)
(*   if (!loop.remaining) console.log("failed onReady callback ...");       *)
ReadyCheck(st) ==
    LET done == [ready |-> ready, onReady |-> ready,
                 failed |-> ReadyFailed(st.remaining, ready)]
        broken == IF ready THEN [st EXCEPT !.qualifier = FALSE, !.cbBroke = TRUE]
                  ELSE st
    IN [broken EXCEPT !.checks = Append(@, done)]

RECURSIVE Run(_, _, _)

(* this.callback(this): the invocation is recorded; the callback is the     *)
(* readiness check, or it calls loop.break(), which clears `qualifier`, in  *)
(* its breakAt-th invocation, and loop.run() in its rerunAt-th.             *)
Callback(st, task, depth) ==
    LET seen == [st EXCEPT !.log = Append(@, Handle(st, task, depth))]
        broken == IF Len(seen.log) = breakAt
                  THEN [seen EXCEPT !.qualifier = FALSE, !.cbBroke = TRUE]
                  ELSE seen
    IN IF poll THEN ReadyCheck(seen)
       ELSE IF Len(seen.log) = rerunAt THEN Run(broken, task, depth + 1)
            ELSE broken

(* this.run = () => { ... } : one call, with the calls nested in it *)
Run(st, task, depth) ==
    LET dec == [st EXCEPT !.remaining = Decrement(@)]
    IN IF RunGuard(st.remaining, st.qualifier)
       THEN LET called == Callback(dec, task, depth)
            IN IF UsesTimer(intervalInMs)
               THEN [called EXCEPT !.timers = SetTimeout(@)]
               ELSE Run(called, task, depth + 1)
       ELSE dec

(* new KDLoop(params), with a callback that calls run() as `reruns` allows *)
LoopNew(reruns) ==
    /\ attemptsArg \in AttemptsArgs
    /\ breakAt \in 0..MaxAttempts
    /\ rerunAt \in reruns
    /\ loopMax = MaxOf(attemptsArg)
    /\ remaining = loopMax
    /\ \E interval \in IntervalArgs : intervalInMs = IntervalOf(interval)
    /\ qualifier = TRUE
    /\ timers = 0
    /\ log = <<>>
    /\ turn = 0
    /\ runCalls = 0
    /\ breakCalls = 0
    /\ extBreakAt = -1
    /\ cbBroke = FALSE
    /\ poll = FALSE
    /\ ready = FALSE
    /\ checks = <<>>
    /\ voiceEvents = 0

(* new KDLoop(params), with a callback that does not call run() *)
LoopInit == LoopNew({0})

Written(st) ==
    /\ remaining' = st.remaining
    /\ qualifier' = st.qualifier
    /\ timers' = st.timers
    /\ log' = st.log
    /\ cbBroke' = st.cbBroke
    /\ checks' = st.checks
    /\ UNCHANGED <<poll, ready, voiceEvents>>

(* loop.run() called by the owner of the loop, in a task of its own *)
LoopRun ==
    /\ runCalls < MaxRunCalls
    /\ runCalls' = runCalls + 1
    /\ turn' = turn + 1
    /\ Written(Run(LoopState, turn + 1, 1))
    /\ UNCHANGED <<attemptsArg, breakAt, rerunAt, loopMax, intervalInMs, breakCalls, extBreakAt>>

(* loop.break() called by the owner of the loop, outside the callback *)
LoopBreak ==
    /\ breakCalls < MaxBreakCalls
    /\ breakCalls' = breakCalls + 1
    /\ turn' = turn + 1
    /\ qualifier' = FALSE
    /\ extBreakAt' = IF extBreakAt = -1 THEN Len(log) ELSE extBreakAt
    /\ UNCHANGED <<attemptsArg, breakAt, rerunAt, loopMax, remaining, intervalInMs, timers,
                   log, runCalls, cbBroke, poll, ready, checks, voiceEvents>>

(* A pending timer fires: the host runs () => { this.run(); } as a task *)
TimerFire ==
    /\ timers > 0
    /\ turn' = turn + 1
    /\ Written(Run([LoopState EXCEPT !.timers = @ - 1], turn + 1, 1))
    /\ UNCHANGED <<attemptsArg, breakAt, rerunAt, loopMax, intervalInMs, runCalls, breakCalls,
                   extBreakAt>>

LoopNext == LoopRun \/ LoopBreak \/ TimerFire

-----------------------------------------------------------------------------
(* The readiness poll of KDSpeechSynth (init.onReadyCheck) *)

(* new KDLoop({ intervalInMs: 20, attempts: 20, callback: cb }) *)
ReadyIntervalInMs == 20
ReadyAttempts == 20

(* The constructor up to the call of loop.run(): init.voices() has set      *)
(* self.ready from the voices the platform has at that time, params.onReady *)
(* is a function, and the loop is constructed.                              *)
PollInit ==
    /\ attemptsArg = JSInt(ReadyAttempts)
    /\ breakAt = 0
    /\ rerunAt = 0
    /\ loopMax = MaxOf(attemptsArg)
    /\ remaining = loopMax
    /\ intervalInMs = IntervalOf(JSInt(ReadyIntervalInMs))
    /\ qualifier = TRUE
    /\ timers = 0
    /\ log = <<>>
    /\ turn = 0
    /\ runCalls = 0
    /\ breakCalls = 0
    /\ extBreakAt = -1
    /\ cbBroke = FALSE
    /\ poll = TRUE
    /\ ready \in BOOLEAN
    /\ checks = <<>>
    /\ voiceEvents = 0

(* loop.run() at the end of init.onReadyCheck: the only call from outside,  *)
(* the loop being a local of onReadyCheck.                                  *)
PollStart ==
    /\ runCalls = 0
    /\ LoopRun

(* A voiceschanged event: $.updateVoices() sets self.ready to whether the   *)
(* platform has voices now.                                                 *)
VoicesChanged(hasVoices) ==
    /\ voiceEvents < MaxVoiceEvents
    /\ voiceEvents' = voiceEvents + 1
    /\ ready' = hasVoices
    /\ turn' = turn + 1
    /\ UNCHANGED <<attemptsArg, breakAt, rerunAt, loopMax, remaining, intervalInMs, qualifier,
                   timers, log, runCalls, breakCalls, extBreakAt, cbBroke, poll, checks>>

-----------------------------------------------------------------------------
(* check (deps/check.ts): the predicates over values *)

(* How a call ends: it returns a value or it throws *)
Return(v) == [thrown |-> FALSE, value |-> v]
Throw == [thrown |-> TRUE, value |-> JSUndefined]
Truthy(o) == ~o.thrown /\ ToBoolean(o.value)

(* handleCheckError: logs the error and returns false *)
HandleCheckError == Return(JSBool(FALSE))

(* try { body } catch (e) { return handleCheckError(e); } *)
Try(body) == IF body.thrown THEN HandleCheckError ELSE body

(* The values handed to the predicates *)
CheckValues ==
    {JSUndefined, JSNull, JSNaN, JSInfinity, JSNegInfinity, JSBigInt, JSNegBigInt,
     JSInt(-MAX_SAFE_INTEGER), JSInt(-1), JSInt(0), JSInt(1), JSInt(MAX_SAFE_INTEGER),
     JSFrac(-1), JSFrac(1), JSString(0), JSString(1), JSBool(FALSE), JSBool(TRUE),
     JSFunction, JSArray(<<>>), JSArray(<<JSInt(1)>>), JSArray(<<JSInt(1), JSString(1)>>),
     JSObject(<<>>), JSObject(<<JSInt(1)>>), JSObject(<<JSUndefined>>),
     JSObject(<<JSNull>>), JSInstance(<<JSInt(1)>>), JSNullProto(<<JSInt(1)>>),
     JSThrowing, JSShadow(<<>>), JSShadow(<<JSString(1)>>), JSShadow(<<JSInt(0)>>)}

(* Second arguments: keys, element predicates, constructors *)
Keys == {"a", "length"}
ElementPredicates == {"check.is.number", "check.is.string", "x => 1", "x => { throw }"}
Constructors == {"Object", "Array", "Foo"}

(* typeof t === "number" *)
TypeofNumber(t) == t.kind \in {"int", "frac", "tenths", "nan", "inf", "unsafe"}

(* Number.isFinite(n), Number.isInteger(n) for a number n *)
NumberIsFinite(n) == n.kind \in {"int", "frac", "tenths", "unsafe"}
NumberIsInteger(n) == n.kind \in {"int", "unsafe"}

(* Mutant of LeqMaxSafe: no upper limit *)
LeqMaxSafe_Always(n) == TRUE

(* n <= Number.MAX_SAFE_INTEGER, n >= Number.MIN_SAFE_INTEGER for a number *)
LeqMaxSafe(n) ==
    CASE n.kind = "int" -> n.n <= MAX_SAFE_INTEGER
      [] n.kind = "frac" -> n.n < MAX_SAFE_INTEGER
      [] n.kind = "tenths" -> n.n \div 10 < MAX_SAFE_INTEGER
      [] n.kind \in {"inf", "unsafe"} -> n.n < 0
      [] OTHER -> FALSE
GeqMinSafe(n) ==
    CASE n.kind \in {"int", "frac"} -> n.n >= -MAX_SAFE_INTEGER
      [] n.kind = "tenths" -> n.n \div 10 >= -MAX_SAFE_INTEGER
      [] n.kind \in {"inf", "unsafe"} -> n.n > 0
      [] OTHER -> FALSE

(* Whether key is an own property of t, by Object.prototype.hasOwnProperty *)
HasOwn(t, key) ==
    \/ key = "a" /\ t.kind \in {"object", "instance", "nullproto"} /\ t.elems # <<>>
    \/ key = "length" /\ t.kind \in {"array", "string", "function"}

(* t.hasOwnProperty(key): the method is looked up on t *)
HasOwnPropertyCall(t, key) ==
    CASE t.kind = "throwing" -> Throw
      [] t.kind = "nullproto" -> Throw
      [] t.kind = "shadow" -> IF t.elems = <<>> THEN Throw ELSE Return(t.elems[1])
      [] OTHER -> Return(JSBool(HasOwn(t, key)))

(* t[key] *)
Get(t, key) ==
    CASE t.kind = "throwing" -> Throw
      [] HasOwn(t, key) /\ key = "a" -> Return(t.elems[1])
      [] key = "length" /\ t.kind = "array" -> Return(JSInt(Len(t.elems)))
      [] key = "length" /\ t.kind = "string" -> Return(JSInt(IF t.n = 0 THEN 0 ELSE 1))
      [] key = "length" /\ t.kind = "function" -> Return(JSInt(0))
      [] OTHER -> Return(JSUndefined)

(* t["constructor"], by name; "undefined" where there is none *)
GetConstructor(t) ==
    CASE t.kind \in {"int", "frac", "nan", "inf", "unsafe"} -> "Number"
      [] t.kind = "string" -> "String"
      [] t.kind = "boolean" -> "Boolean"
      [] t.kind = "function" -> "Function"
      [] t.kind = "array" -> "Array"
      [] t.kind \in {"object", "shadow"} -> "Object"
      [] t.kind = "instance" -> "Foo"
      [] OTHER -> "undefined"

(* Object.prototype.toString.call(t) === "[object Function]" *)
ToStringIsFunction(t) ==
    IF t.kind = "throwing" THEN Throw ELSE Return(JSBool(t.kind = "function"))

(* Mutant of CheckExists: null is not looked for *)
CheckExists_NotUndefined(t) == Return(JSBool(t # JSUndefined))

CheckExists(t) == Try(Return(JSBool(t # JSUndefined /\ t # JSNull)))

CheckHasKey(t, key) ==
    Try(IF ~Truthy(CheckExists(t)) THEN Return(JSBool(FALSE))
        ELSE HasOwnPropertyCall(t, key))

CheckHasValueForKey(t, key) ==
    Try(IF ~Truthy(CheckHasKey(t, key)) THEN Return(JSBool(FALSE))
        ELSE LET got == Get(t, key)
             IN IF got.thrown THEN Throw ELSE CheckExists(got.value))

CheckIsUndefined(t) == Try(Return(JSBool(t = JSUndefined)))

CheckIsNull(t) == Try(Return(JSBool(t = JSNull)))

CheckIsNumber(t) ==
    Try(IF ~Truthy(CheckExists(t)) THEN Return(JSBool(FALSE))
        ELSE Return(JSBool(TypeofNumber(t))))

CheckIsSafeNumber(t) ==
    Try(IF ~Truthy(CheckIsNumber(t)) THEN Return(JSBool(FALSE))
        ELSE Return(JSBool(NumberIsFinite(t) /\ LeqMaxSafe(t) /\ GeqMinSafe(t))))

CheckIsInteger(t) ==
    Try(IF ~Truthy(CheckIsNumber(t)) THEN Return(JSBool(FALSE))
        ELSE Return(JSBool(NumberIsInteger(t))))

(* Mutant of CheckIsSafeInteger: the range is not looked at *)
CheckIsSafeInteger_NoRange(t) == CheckIsInteger(t)

CheckIsSafeInteger(t) ==
    Try(IF ~Truthy(CheckIsSafeNumber(t)) THEN Return(JSBool(FALSE))
        ELSE Return(JSBool(NumberIsInteger(t))))

CheckIsBoolean(t) == Try(Return(JSBool(t.kind = "boolean")))

CheckIsString(t) == Try(Return(JSBool(t.kind = "string")))

CheckIsFunction(t) ==
    Try(IF ~Truthy(CheckExists(t)) THEN Return(JSBool(FALSE))
        ELSE ToStringIsFunction(t))

CheckIsArray(t) ==
    Try(IF ~Truthy(CheckExists(t)) THEN Return(JSBool(FALSE))
        ELSE Return(JSBool(t.kind = "array")))

CheckIsGenericObject(t) ==
    Try(IF ~Truthy(CheckExists(t)) THEN Return(JSBool(FALSE))
        ELSE IF t.kind = "throwing" THEN Throw
        ELSE Return(JSBool(GetConstructor(t) = "Object")))

(* f(x) for the element predicates *)
Apply(f, x) ==
    CASE f = "check.is.number" -> CheckIsNumber(x)
      [] f = "check.is.string" -> CheckIsString(x)
      [] f = "x => 1" -> Return(JSInt(1))
      [] OTHER -> Throw

(* t.every((x) => f(x)): stops at the first falsy result, returns a boolean *)
RECURSIVE Every(_, _)
Every(elems, f) ==
    IF elems = <<>> THEN Return(JSBool(TRUE))
    ELSE LET o == Apply(f, Head(elems))
         IN IF o.thrown THEN Throw
            ELSE IF ~ToBoolean(o.value) THEN Return(JSBool(FALSE))
            ELSE Every(Tail(elems), f)

CheckIsArrayOf(t, f) ==
    Try(IF ~Truthy(CheckIsArray(t)) THEN Return(JSBool(FALSE))
        ELSE IF ~(Len(t.elems) > 0) THEN Return(JSBool(FALSE))
        ELSE Every(t.elems, f))

CheckIsConstructedFrom(t, constructor) ==
    Try(IF ~Truthy(CheckExists(t)) THEN Return(JSBool(FALSE))
        ELSE IF t.kind = "throwing" THEN Throw
        ELSE Return(JSBool(GetConstructor(t) = constructor)))

(* No predicate has been called *)
CheckUnused ==
    /\ cval = JSUndefined
    /\ cpred = "none"
    /\ carg = "none"
    /\ cres = Return(JSUndefined)

(* Some value is at hand *)
CheckInit ==
    /\ cval \in CheckValues
    /\ cpred = "none"
    /\ carg = "none"
    /\ cres = Return(JSUndefined)

(* One call of a predicate on the value *)
Called(name, arg, outcome) ==
    /\ cpred' = name
    /\ carg' = arg
    /\ cres' = outcome
    /\ UNCHANGED cval

Exists == Called("exists", "none", CheckExists(cval))
HasKey(key) == Called("has.key", key, CheckHasKey(cval, key))
HasValueForKey(key) == Called("has.valueForKey", key, CheckHasValueForKey(cval, key))
IsUndefined == Called("is.undefined", "none", CheckIsUndefined(cval))
IsNull == Called("is.null", "none", CheckIsNull(cval))
IsNumber == Called("is.number", "none", CheckIsNumber(cval))
IsSafeNumber == Called("is.safeNumber", "none", CheckIsSafeNumber(cval))
IsInteger == Called("is.integer", "none", CheckIsInteger(cval))
IsSafeIntegerCall == Called("is.safeInteger", "none", CheckIsSafeInteger(cval))
IsBoolean == Called("is.boolean", "none", CheckIsBoolean(cval))
IsString == Called("is.string", "none", CheckIsString(cval))
IsFunction == Called("is.function", "none", CheckIsFunction(cval))
IsArray == Called("is.array", "none", CheckIsArray(cval))
IsGenericObject == Called("is.genericObject", "none", CheckIsGenericObject(cval))
IsArrayOf(f) == Called("is.arrayOf", f, CheckIsArrayOf(cval, f))
IsConstructedFrom(constructor) ==
    Called("is.constructedFrom", constructor, CheckIsConstructedFrom(cval, constructor))

-----------------------------------------------------------------------------
(* KDSpeechSynth (KDSpeechSynth.ts): the settings *)

(* The whole part and the tenths of a finite number *)
Whole(v) == IF v.kind = "tenths" THEN v.n \div 10 ELSE v.n
Part(v) == CASE v.kind = "frac" -> 5 [] v.kind = "tenths" -> v.n % 10 [] OTHER -> 0
NumLess(a, b) == Whole(a) < Whole(b) \/ (Whole(a) = Whole(b) /\ Part(a) < Part(b))

(* Math.max, Math.min of two finite numbers *)
MathMax(a, b) == IF NumLess(a, b) THEN b ELSE a
MathMin(a, b) == IF NumLess(b, a) THEN b ELSE a

(* Mutant of Clip: the upper limit is not applied *)
Clip_NoMax(value, range) == MathMax(range[1], value)

(* $.clip(value, range): clipMax(clipMin(value)) *)
Clip(value, range) == MathMin(MathMax(range[1], value), range[2])

(* The ranges of rate, pitch and volume *)
RateRange == <<JSTenths(1), JSInt(10)>>
PitchRange == <<JSInt(0), JSInt(2)>>
VolumeRange == <<JSInt(0), JSInt(1)>>

(* params?.x ? params.x : fallback *)
Param(p, fallback) == IF ToBoolean(p) THEN p ELSE fallback

(* new KDSpeechSynth() without parameters *)
NoParams ==
    [text |-> JSUndefined, voice |-> JSUndefined, rate |-> JSUndefined,
     pitch |-> JSUndefined, volume |-> JSUndefined, maxHistory |-> JSUndefined,
     onVoicesChanged |-> JSUndefined]

(* The constructor: self is filled from params, the history is new, and    *)
(* init.voices() reads the n voices the platform has.                      *)
SynthInit(params, n) ==
    /\ selfText = Param(params.text, JSString(0))
    /\ selfVoice = Param(params.voice, JSInt(0))
    /\ selfMaxHistory = Param(params.maxHistory, JSInt(0))
    /\ capSet = 0
    /\ selfVolume = Param(params.volume, JSInt(1))
    /\ selfRate = Param(params.rate, JSInt(1))
    /\ selfPitch = Param(params.pitch, JSInt(1))
    /\ voices = n
    /\ selfOnVoicesChanged = Param(params.onVoicesChanged, JSUndefined)
    /\ callsBack = FALSE
    /\ heard = <<>>
    /\ utterances = <<>>
    /\ paused = FALSE
    /\ fop = "new"
    /\ farg = <<>>
    /\ fret = JSUndefined

(* No KDSpeechSynth is looked at *)
SynthUnused == SynthInit(NoParams, 0)

(* No onReady in params: no loop is made; self.ready is what updateVoices *)
(* has set.                                                                *)
NoPoll ==
    /\ attemptsArg = JSUndefined
    /\ breakAt = 0
    /\ rerunAt = 0
    /\ loopMax = MaxOf(attemptsArg)
    /\ remaining = loopMax
    /\ intervalInMs = 0
    /\ qualifier = TRUE
    /\ timers = 0
    /\ log = <<>>
    /\ turn = 0
    /\ runCalls = 0
    /\ breakCalls = 0
    /\ extBreakAt = -1
    /\ cbBroke = FALSE
    /\ poll = FALSE
    /\ ready = (voices > 0)
    /\ checks = <<>>
    /\ voiceEvents = 0

(* A call of the facade, or a platform event, and what it gave back *)
Did(name, args, ret) ==
    /\ fop' = name
    /\ farg' = args
    /\ fret' = ret

(* The arguments handed to the setters *)
SetterArgs ==
    {JSUndefined, JSNaN, JSString(1),
     JSInt(-1), JSInt(0), JSInt(1), JSInt(11), JSFrac(0)}

(* Mutant of Accepted: the validation is not looked at *)
Accepted_Always(valid, value, current) == value

(* The value a setter stores: the argument, clipped, when it is valid *)
Accepted(valid, value, current) == IF Truthy(valid) THEN value ELSE current

OtherThan(setting) ==
    /\ UNCHANGED <<selfMaxHistory, capSet, voices, voiceCbVars, utterances, paused>>
    /\ IF setting = "text" THEN TRUE ELSE UNCHANGED selfText
    /\ IF setting = "voice" THEN TRUE ELSE UNCHANGED selfVoice
    /\ IF setting = "rate" THEN TRUE ELSE UNCHANGED selfRate
    /\ IF setting = "pitch" THEN TRUE ELSE UNCHANGED selfPitch
    /\ IF setting = "volume" THEN TRUE ELSE UNCHANGED selfVolume

Voice(a) ==
    /\ selfVoice' = Accepted(CheckIsSafeInteger(a), a, selfVoice)
    /\ Did("voice", <<a>>, selfVoice')
    /\ OtherThan("voice")

Rate(a) ==
    /\ selfRate' = Accepted(CheckIsSafeNumber(a), Clip(a, RateRange), selfRate)
    /\ Did("rate", <<a>>, selfRate')
    /\ OtherThan("rate")

Pitch(a) ==
    /\ selfPitch' = Accepted(CheckIsSafeNumber(a), Clip(a, PitchRange), selfPitch)
    /\ Did("pitch", <<a>>, selfPitch')
    /\ OtherThan("pitch")

Volume(a) ==
    /\ selfVolume' = Accepted(CheckIsSafeNumber(a), Clip(a, VolumeRange), selfVolume)
    /\ Did("volume", <<a>>, selfVolume')
    /\ OtherThan("volume")

Text(a) ==
    /\ selfText' = Accepted(CheckIsString(a), a, selfText)
    /\ Did("text", <<a>>, selfText')
    /\ OtherThan("text")

-----------------------------------------------------------------------------
(* KDSpeechSynth (KDSpeechSynth.ts): speaking, and the platform's queue *)

(* speechSynthesis.speaking || speechSynthesis.pending: an utterance is    *)
(* being spoken, or waits in the queue.                                    *)
SpeakingOrPending == utterances # <<>>

(* speechSynthesis.cancel(): every utterance is removed from the queue *)
SynthCancel(queue) == <<>>

(* Mutant of SynthSpeak: the new utterance goes in front *)
SynthSpeak_InFront(queue, utterance) == <<utterance>> \o queue

(* speechSynthesis.speak(utterance): the utterance is appended to the queue *)
SynthSpeak(queue, utterance) == Append(queue, utterance)

(* _self.voices[i] for a stored index i: the voice, by its index in the    *)
(* sorted list, or undefined                                               *)
VoiceAt(i) == IF i.kind = "int" /\ 0 <= i.n /\ i.n < voices THEN i ELSE JSUndefined

(* getVoice of _.queue *)
GetVoice ==
    IF voices > 0
    THEN IF ~NumLess(JSInt(voices), selfVoice) THEN VoiceAt(selfVoice) ELSE VoiceAt(JSInt(0))
    ELSE JSUndefined

(* getUtterance of _.queue, for the text that self.text holds by then *)
GetUtterance(spoken) ==
    [text |-> spoken,
     voice |-> IF Truthy(CheckExists(GetVoice)) THEN GetVoice ELSE JSNull,
     pitch |-> selfPitch, rate |-> selfRate, volume |-> selfVolume]

(* if (check.is.string(text)) self.text = text *)
TextAfter(a) == IF Truthy(CheckIsString(a)) THEN a ELSE selfText

(* The guards of _.queue are passed: ready, and a text to speak *)
Submits(a) ==
    /\ ready
    /\ Truthy(CheckIsString(TextAfter(a)))
    /\ TextAfter(a) # JSString(0)

(* self.history.push(text): the argument of the call is handed on *)
HistoryArgs(a) == <<a>>

(* Mutant of NotReady: queue goes on when the synth is not ready *)
NotReady_Never == FALSE

(* if (!self.ready) { ...; return; } *)
NotReady == ~ready

(* The body of _.queue(text, skipHistory) on the platform queue `queue` *)
QueueOn(queue, a, skipHistory) ==
    IF NotReady
    THEN /\ utterances' = queue
         /\ UNCHANGED <<selfText, hist>>
    ELSE /\ selfText' = TextAfter(a)
         /\ IF Submits(a)
            THEN /\ hist' = IF ~ToBoolean(skipHistory)
                            THEN PushResult(hist, HistoryArgs(a), hmax)
                            ELSE hist
                 /\ utterances' = SynthSpeak(queue, GetUtterance(TextAfter(a)))
            ELSE /\ utterances' = queue
                 /\ UNCHANGED hist

(* What the speaking functions leave alone *)
SpeakFrame ==
    UNCHANGED <<selfVoice, selfRate, selfPitch, selfVolume, selfMaxHistory, capSet, voices, voiceCbVars,
                paused, hmax, hret, hop, harg, pushed, onePerCall, capMoved, hcalls>>

(* _.queue(text, skipHistory) *)
Queue(a, skipHistory) ==
    /\ Len(utterances) < MaxQueued
    /\ Len(hist) < MaxSpoken
    /\ QueueOn(utterances, a, skipHistory)
    /\ Did("queue", <<a, skipHistory>>, JSUndefined)
    /\ SpeakFrame

(* _.speak(text, skipHistory): cancel when speaking, pending or paused,    *)
(* then queue                                                              *)
Speak(a, skipHistory) ==
    /\ Len(hist) < MaxSpoken
    /\ QueueOn(IF SpeakingOrPending \/ paused THEN SynthCancel(utterances) ELSE utterances,
               a, skipHistory)
    /\ Did("speak", <<a, skipHistory>>, JSUndefined)
    /\ SpeakFrame

(* _.cancel(), _.pause(), _.resume() *)
Cancel ==
    /\ utterances' = SynthCancel(utterances)
    /\ Did("cancel", <<>>, JSUndefined)
    /\ UNCHANGED <<settingVars, selfMaxHistory, capSet, voices, voiceCbVars, paused>>

Pause ==
    /\ paused' = TRUE
    /\ Did("pause", <<>>, JSUndefined)
    /\ UNCHANGED <<settingVars, selfMaxHistory, capSet, voices, voiceCbVars, utterances>>

Resume ==
    /\ paused' = FALSE
    /\ Did("resume", <<>>, JSUndefined)
    /\ UNCHANGED <<settingVars, selfMaxHistory, capSet, voices, voiceCbVars, utterances>>

(* The platform has spoken the first utterance of its queue to the end *)
UtteranceEnd ==
    /\ utterances # <<>>
    /\ ~paused
    /\ utterances' = Tail(utterances)
    /\ Did("end", <<>>, JSUndefined)
    /\ UNCHANGED <<settingVars, selfMaxHistory, capSet, voices, voiceCbVars, paused>>

(* Mutant of Hears: the callback runs before the voices are updated *)
Hears_Before(before, after) == before

(* What self.onVoicesChanged(e) finds, called after $.updateVoices() *)
Hears(before, after) == after

(* A voiceschanged event with n voices on the platform: $.updateVoices(),   *)
(* and self.onVoicesChanged(e) after it in the handler that _.onVoicesChanged *)
(* has set.                                                                 *)
UpdateVoices(n) ==
    /\ voices' = n
    /\ ready' = (n > 0)
    /\ heard' = IF callsBack THEN Hears(<<voices, ready>>, <<voices', ready'>>) ELSE heard
    /\ Did("voiceschanged", <<JSInt(n)>>, JSUndefined)
    /\ UNCHANGED <<settingVars, selfMaxHistory, capSet, utterances, paused,
                   selfOnVoicesChanged, callsBack>>
    /\ UNCHANGED <<attemptsArg, breakAt, rerunAt, loopMax, remaining, intervalInMs, qualifier,
                   timers, log, turn, runCalls, breakCalls, extBreakAt, cbBroke, poll,
                   checks, voiceEvents>>

(* _.onVoicesChanged(callback) *)
OnVoicesChanged(callback) ==
    /\ IF Truthy(CheckIsFunction(callback))
       THEN selfOnVoicesChanged' = callback /\ callsBack' = TRUE
       ELSE UNCHANGED <<selfOnVoicesChanged, callsBack>>
    /\ Did("onVoicesChanged", <<callback>>, JSUndefined)
    /\ UNCHANGED <<settingVars, selfMaxHistory, capSet, voices, heard, utterances, paused>>

(* _.isReady() *)
IsReady ==
    /\ Did("isReady", <<>>, JSBool(ready))
    /\ UNCHANGED <<settingVars, selfMaxHistory, capSet, voices, voiceCbVars, utterances, paused>>

-----------------------------------------------------------------------------
(* KDSpeechSynth (KDSpeechSynth.ts): the limit of the history *)

(* Math.abs(v) of a number; NaN of what is no number *)
MathAbs(v) ==
    CASE v.kind = "int" -> JSInt(IF v.n < 0 THEN -v.n ELSE v.n)
      [] v.kind = "frac" -> IF v.n < 0 THEN JSFrac(-v.n - 1) ELSE v
      [] v.kind = "inf" -> JSInfinity
      [] v.kind = "unsafe" -> JSBigInt
      [] v.kind = "tenths" -> v
      [] OTHER -> JSNaN

(* A positive safe integer *)
IsPositiveInteger(a) == IsSafeInteger(a) /\ a.n > 0

(* _.maxHistory(max) *)
MaxHistory(a) ==
    /\ IF ToBoolean(a) /\ Truthy(CheckIsSafeInteger(a))
       THEN /\ selfMaxHistory' = MathAbs(selfMaxHistory)
            /\ hmax' = MaxResult(hmax, selfMaxHistory')
       ELSE UNCHANGED <<selfMaxHistory, hmax>>
    /\ capSet' = IF IsPositiveInteger(a) THEN a.n ELSE capSet
    /\ Did("maxHistory", <<a>>, JSInt(MaxResult(hmax', JSUndefined)))
    /\ UNCHANGED <<settingVars, voices, voiceCbVars, utterances, paused>>
    /\ UNCHANGED <<hist, hret, hop, harg, pushed, onePerCall, capMoved, hcalls>>

(* _.clearHistory() *)
ClearHistory ==
    /\ hist' = <<>>
    /\ hmax' = IF ToBoolean(selfMaxHistory)
               THEN MaxResult(MAX_SAFE_INTEGER, selfMaxHistory)
               ELSE MAX_SAFE_INTEGER
    /\ Did("clearHistory", <<>>, JSUndefined)
    /\ UNCHANGED <<settingVars, selfMaxHistory, capSet, voices, voiceCbVars, utterances, paused>>
    /\ UNCHANGED <<hret, hop, harg, pushed, onePerCall, capMoved, hcalls>>

-----------------------------------------------------------------------------
(* Specifications *)

Init == HistoryInit /\ SnapshotInit /\ LoopInit /\ CheckUnused /\ SynthUnused

HistoryStep == HistoryNext /\ UNCHANGED <<snapVars, loopVars, checkVars, synthVars>>
LoopStep == LoopNext /\ UNCHANGED <<histVars, snapVars, checkVars, synthVars>>

Next == HistoryStep \/ LoopStep

Spec == Init /\ [][Next]_vars

(* One KDHistory instance, next to a loop that is never run *)
LoopUnused == LoopInit /\ attemptsArg = JSUndefined /\ breakAt = 0 /\ intervalInMs = 0
InitHistory == HistoryInit /\ SnapshotInit /\ LoopUnused /\ CheckUnused /\ SynthUnused
NextHistory ==
    \/ \E size \in SizeArgs : HistoryMax(size) /\ UNCHANGED <<snapVars, loopVars, checkVars, synthVars>>
    \/ \E items \in Batches : HistoryPush(items) /\ UNCHANGED <<snapVars, loopVars, checkVars, synthVars>>
SpecHistory == InitHistory /\ [][NextHistory]_vars

(* One KDLoop instance, next to a history that is never used *)
InitLoop == HistoryInit /\ SnapshotInit /\ LoopInit /\ CheckUnused /\ SynthUnused
NextLoop ==
    \/ LoopRun /\ UNCHANGED <<histVars, snapVars, checkVars, synthVars>>
    \/ LoopBreak /\ UNCHANGED <<histVars, snapVars, checkVars, synthVars>>
    \/ TimerFire /\ UNCHANGED <<histVars, snapVars, checkVars, synthVars>>
SpecLoop == InitLoop /\ [][NextLoop]_vars

(* One KDLoop instance whose callback calls run() in one of its invocations *)
InitRerun == HistoryInit /\ SnapshotInit /\ LoopNew(1..MaxAttempts) /\ CheckUnused /\ SynthUnused
SpecRerun == InitRerun /\ [][NextLoop]_vars

(* The host fires every pending timer: setTimeout callbacks are not starved *)
FairSpecLoop == SpecLoop /\ WF_vars(TimerFire /\ UNCHANGED <<histVars, snapVars, checkVars, synthVars>>)

(* The readiness poll of one KDSpeechSynth, its history not used *)
InitReady == HistoryInit /\ SnapshotInit /\ PollInit /\ CheckUnused /\ SynthUnused
NextReady ==
    \/ PollStart /\ UNCHANGED <<histVars, snapVars, checkVars, synthVars>>
    \/ TimerFire /\ UNCHANGED <<histVars, snapVars, checkVars, synthVars>>
    \/ \E hasVoices \in BOOLEAN : VoicesChanged(hasVoices) /\ UNCHANGED <<histVars, snapVars, checkVars, synthVars>>
SpecReady == InitReady /\ [][NextReady]_vars

(* The predicates of check called on one value *)
InitCheck == HistoryInit /\ SnapshotInit /\ LoopUnused /\ CheckInit /\ SynthUnused
OnlyCheck == UNCHANGED <<histVars, snapVars, loopVars, synthVars>>
NextCheck ==
    \/ Exists /\ OnlyCheck
    \/ \E key \in Keys : HasKey(key) /\ OnlyCheck
    \/ \E key \in Keys : HasValueForKey(key) /\ OnlyCheck
    \/ IsUndefined /\ OnlyCheck
    \/ IsNull /\ OnlyCheck
    \/ IsNumber /\ OnlyCheck
    \/ IsSafeNumber /\ OnlyCheck
    \/ IsInteger /\ OnlyCheck
    \/ IsSafeIntegerCall /\ OnlyCheck
    \/ IsBoolean /\ OnlyCheck
    \/ IsString /\ OnlyCheck
    \/ IsFunction /\ OnlyCheck
    \/ IsArray /\ OnlyCheck
    \/ IsGenericObject /\ OnlyCheck
    \/ \E f \in ElementPredicates : IsArrayOf(f) /\ OnlyCheck
    \/ \E constructor \in Constructors : IsConstructedFrom(constructor) /\ OnlyCheck
SpecCheck == InitCheck /\ [][NextCheck]_vars

(* The settings of one KDSpeechSynth: the constructor, then the setters *)
SettingsParams ==
    [text : {JSUndefined}, voice : {JSUndefined},
     rate : {JSUndefined, JSInt(11)}, pitch : {JSUndefined},
     volume : {JSUndefined, JSString(1)}, maxHistory : {JSUndefined},
     onVoicesChanged : {JSUndefined}]
InitSettings ==
    /\ HistoryInit /\ SnapshotInit /\ CheckUnused
    /\ \E params \in SettingsParams : SynthInit(params, 0)
    /\ NoPoll
OnlySynth == UNCHANGED <<histVars, snapVars, loopVars, checkVars>>
NextSettings ==
    \/ \E a \in SetterArgs : Voice(a) /\ OnlySynth
    \/ \E a \in SetterArgs : Rate(a) /\ OnlySynth
    \/ \E a \in SetterArgs : Pitch(a) /\ OnlySynth
    \/ \E a \in SetterArgs : Volume(a) /\ OnlySynth
    \/ \E a \in SetterArgs : Text(a) /\ OnlySynth
SpecSettings == InitSettings /\ [][NextSettings]_vars

(* One KDSpeechSynth speaking: texts are stored, queued and spoken, the    *)
(* platform speaks them to the end, and its voices come and go.            *)
SpokenTexts == {JSUndefined, JSString(0), JSString(1)}
StoredTexts == {JSString(0), JSString(2)}
SkipArgs == {JSUndefined, JSBool(TRUE)}
InitSpeech ==
    /\ HistoryInit /\ SnapshotInit /\ CheckUnused
    /\ \E n \in 0..MaxVoices : SynthInit(NoParams, n)
    /\ NoPoll
HistoryOnly == UNCHANGED <<snapVars, loopVars, checkVars>>
PlatformOnly == UNCHANGED <<histVars, snapVars, checkVars>>
NextSpeech ==
    \/ \E a \in StoredTexts : Text(a) /\ OnlySynth
    \/ \E a \in SpokenTexts, skip \in SkipArgs : Queue(a, skip) /\ HistoryOnly
    \/ \E a \in SpokenTexts, skip \in SkipArgs : Speak(a, skip) /\ HistoryOnly
    \/ Cancel /\ OnlySynth
    \/ Pause /\ OnlySynth
    \/ Resume /\ OnlySynth
    \/ UtteranceEnd /\ OnlySynth
    \/ \E n \in 0..MaxVoices : UpdateVoices(n) /\ PlatformOnly
SpecSpeech == InitSpeech /\ [][NextSpeech]_vars

(* The utterances of one KDSpeechSynth: constructed with settings, its     *)
(* voice and rate are set, the platform's voices come and go, and a text   *)
(* is spoken.                                                              *)
VoiceArgs == {JSInt(-1), JSInt(1), JSInt(2)}
RateArgs == {JSInt(11)}
UtteranceParams ==
    {[NoParams EXCEPT !.rate = r, !.pitch = p] :
        r \in {JSUndefined, JSInt(11)}, p \in {JSUndefined, JSInt(-1)}}
InitUtterance ==
    /\ HistoryInit /\ SnapshotInit /\ CheckUnused
    /\ \E n \in 0..MaxVoices, params \in UtteranceParams : SynthInit(params, n)
    /\ NoPoll
NextUtterance ==
    \/ \E a \in VoiceArgs : Voice(a) /\ OnlySynth
    \/ \E a \in RateArgs : Rate(a) /\ OnlySynth
    \/ \E n \in 0..MaxVoices : UpdateVoices(n) /\ PlatformOnly
    \/ Speak(JSString(1), JSBool(TRUE)) /\ HistoryOnly
SpecUtterance == InitUtterance /\ [][NextUtterance]_vars

(* The voices of one KDSpeechSynth: the platform's voices come and go, a   *)
(* callback is registered, and the synth is asked whether it is ready.     *)
CallbackArgs == {JSUndefined, JSFunction, JSString(1)}
VoicesParams == {[NoParams EXCEPT !.onVoicesChanged = f] : f \in {JSUndefined, JSFunction}}
InitVoices ==
    /\ HistoryInit /\ SnapshotInit /\ CheckUnused
    /\ \E n \in 0..MaxVoices, params \in VoicesParams : SynthInit(params, n)
    /\ NoPoll
NextVoices ==
    \/ \E n \in 0..MaxVoices : UpdateVoices(n) /\ PlatformOnly
    \/ \E callback \in CallbackArgs : OnVoicesChanged(callback) /\ OnlySynth
    \/ IsReady /\ OnlySynth
    \/ \E a \in Items : Speak(a, JSBool(TRUE)) /\ HistoryOnly
SpecVoices == InitVoices /\ [][NextVoices]_vars

(* The history of one KDSpeechSynth that is ready: texts are spoken, the   *)
(* limit is set and read, and the history is cleared.                      *)
MaxHistoryArgs ==
    {JSUndefined, JSString(1), JSFrac(1)} \cup {JSInt(n) : n \in -1..MaxSpoken}
LimitParams ==
    {[NoParams EXCEPT !.maxHistory = m] : m \in {JSUndefined, JSInt(1), JSInt(-1)}}
InitLimit ==
    /\ HistoryInit /\ SnapshotInit /\ CheckUnused
    /\ \E params \in LimitParams : SynthInit(params, 1)
    /\ NoPoll
NextLimit ==
    \/ \E a \in Items : Speak(a, JSUndefined) /\ HistoryOnly
    \/ \E a \in MaxHistoryArgs : MaxHistory(a) /\ HistoryOnly
    \/ ClearHistory /\ HistoryOnly
SpecLimit == InitLimit /\ [][NextLimit]_vars

(* The history of one KDSpeechSynth constructed with maxHistory = n, a      *)
(* positive safe integer                                                   *)
BoundedParams == {[NoParams EXCEPT !.maxHistory = JSInt(n)] : n \in 1..MaxSpoken}
InitBounded ==
    /\ HistoryInit /\ SnapshotInit /\ CheckUnused
    /\ \E params \in BoundedParams : SynthInit(params, 1)
    /\ NoPoll
SpecBounded == InitBounded /\ [][NextLimit]_vars

(* The history of a KDSpeechSynth: texts are pushed one per call, history() *)
(* hands out a copy, and the caller does with the copy what it likes.       *)
InitSnapshot == HistoryInit /\ SnapshotInit /\ LoopUnused /\ CheckUnused /\ SynthUnused
NextSnapshot ==
    \/ \E size \in SizeArgs : HistoryMax(size) /\ UNCHANGED <<snapVars, loopVars, checkVars, synthVars>>
    \/ \E text \in Items : PushKeepingCopy(text) /\ UNCHANGED <<loopVars, checkVars, synthVars>>
    \/ History /\ UNCHANGED <<loopVars, checkVars, synthVars>>
    \/ \E n \in 0..MaxPushed : CopySetLength(n) /\ UNCHANGED <<loopVars, checkVars, synthVars>>
    \/ CopyReverse /\ UNCHANGED <<loopVars, checkVars, synthVars>>
    \/ \E i \in 1..MaxPushed, v \in Items : CopySetEntry(i, v) /\ UNCHANGED <<loopVars, checkVars, synthVars>>
    \/ \E i \in 1..MaxPushed, v \in Items : CopyWriteInEntry(i, v) /\ UNCHANGED <<loopVars, checkVars, synthVars>>
SpecSnapshot == InitSnapshot /\ [][NextSnapshot]_vars

-----------------------------------------------------------------------------
(* Properties of KDHistory *)

(* C1: starting empty, after every push(...) and every max(size) call, in  *)
(* any order and number, length <= max() holds.                            *)
C1_LengthWithinMax == Len(hist) <= hmax

(* The last m elements of s *)
LastOf(s, m) == SubSeq(s, Len(s) - m + 1, Len(s))

(* C10: with capacity c >= 1, after appending x1..xk one per push call,    *)
(* the contents are exactly the last min(k, c) items, in insertion order.  *)
C10_LastItemsKept ==
    (onePerCall /\ ~capMoved /\ hmax >= 1)
        => hist = LastOf(pushed, Min(Len(pushed), hmax))

(* The step is a call of push / of max *)
PushCalled == hop' = "push" /\ hcalls' = hcalls + 1
MaxCalled == hop' = "max" /\ hcalls' = hcalls + 1

(* N successive single-item pushes of the items, in order *)
RECURSIVE PushEach(_, _, _)
PushEach(arr, items, max) ==
    IF items = <<>> THEN arr
    ELSE PushEach(PushResult(arr, <<Head(items)>>, max), Tail(items), max)

(* C11: one push call with a batch of N >= 1 items leaves the same         *)
(* contents and returns the same length as N successive single-item pushes *)
(* of those items in order.                                                *)
C11_BatchAsSingles ==
    [][(PushCalled /\ Len(harg'.elems) >= 1)
          => /\ hist' = PushEach(hist, harg'.elems, hmax)
             /\ hret' = Len(PushEach(hist, harg'.elems, hmax))]_vars

(* C12: with the default capacity, after appending N items in total,       *)
(* through any split into push calls, length = N, the contents are those N *)
(* items in insertion order, and each push returns the length after it.    *)
C12_DefaultCapacityKeepsAll ==
    hmax = MAX_SAFE_INTEGER
        => /\ Len(hist) = Len(pushed)
           /\ hist = pushed
           /\ hop = "push" => hret = Len(hist)

(* C16: any mutation of the array returned by history(), of its length,    *)
(* its order or of the entries reachable from it, leaves the internal      *)
(* history unchanged.                                                      *)
CopyMutations == {"copy.length=", "copy.reverse", "copy[i]=", "copy[i][0]="}
C16_CopyIsIndependent ==
    [][(hop' \in CopyMutations /\ hcalls' = hcalls + 1) => hist' = hist]_vars

(* C13: max(size) with a size that is not a safe integer (and not omitted) *)
(* leaves the capacity and the contents unchanged and returns the          *)
(* unchanged capacity.                                                     *)
C13_RejectedSizeChangesNothing ==
    [][(MaxCalled /\ harg' # JSUndefined /\ harg'.kind # "int")
          => /\ hmax' = hmax
             /\ hist' = hist
             /\ hret' = hmax]_vars

C13_Witness ==
    /\ hop = "max" /\ harg = JSFrac(1)
    /\ hmax = MaxCap /\ hret = MaxCap /\ Len(hist) = 2

(* C14: max(-1) leaves the capacity unchanged and returns the prior        *)
(* capacity, just as max(1.5) does.                                        *)
C14_NegativeSizeRejected ==
    [][(MaxCalled /\ harg' = JSInt(-1)) => (hmax' = hmax /\ hret' = hmax)]_vars

(* C15: max(n) with a safe integer n stores and returns n; the capacity    *)
(* changes in no other step, so every later max() returns n until the next *)
(* accepted set; max() without argument returns the capacity and changes   *)
(* neither the capacity nor the contents.                                  *)
C15_MaxSetAndRead ==
    [][/\ (MaxCalled /\ harg'.kind = "int") => (hmax' = harg'.n /\ hret' = harg'.n)
       /\ ~(MaxCalled /\ harg'.kind = "int") => hmax' = hmax
       /\ (MaxCalled /\ harg' = JSUndefined) => (hist' = hist /\ hret' = hmax)]_vars

C15_Witness ==
    /\ hop = "max" /\ harg = JSUndefined /\ hret = 0 /\ hmax = 0
    /\ hist # <<>> /\ hcalls >= 3

-----------------------------------------------------------------------------
(* Properties of KDLoop *)

(* params.attempts is the integer n *)
AttemptsIs(n) == attemptsArg = JSInt(n)
AttemptsAtLeastOne == attemptsArg.kind = "int" /\ attemptsArg.n >= 1

(* Attempts exhausted or break flag set *)
Stopped == remaining <= 0 \/ ~qualifier

(* No timer pending and no further callback invocation possible *)
LoopStopped == timers = 0 /\ Stopped

(* C2: with attempts = N >= 1, any interval, and a callback that never     *)
(* calls break(), one run() leads to exactly N invocations: never more     *)
(* than N, and N once no timer is pending any more.                        *)
C2_ExactlyN ==
    (AttemptsAtLeastOne /\ breakAt = 0 /\ breakCalls = 0 /\ runCalls = 1)
        => /\ Len(log) <= attemptsArg.n
           /\ timers = 0 => Len(log) = attemptsArg.n

C2_Witness ==
    /\ AttemptsIs(MaxAttempts) /\ breakAt = 0 /\ breakCalls = 0 /\ runCalls = 1
    /\ intervalInMs # 0 /\ timers = 0 /\ Len(log) = MaxAttempts

(* C3: if the callback calls loop.break() during its k-th invocation, the  *)
(* callback is invoked exactly k times in total, whatever the attempts,    *)
(* the interval and the later run() calls.                                 *)
C3_BreakAtK == cbBroke => Len(log) = breakAt

C3_Witness ==
    /\ cbBroke /\ breakAt = 2 /\ loopMax = MaxAttempts
    /\ timers = 0 /\ runCalls = MaxRunCalls /\ Len(log) = 2

(* C4: a loop constructed with attempts equal to 0 or negative performs    *)
(* zero callback invocations when run() is called.                         *)
C4_NoAttemptsNoInvocation ==
    (attemptsArg.kind = "int" /\ attemptsArg.n <= 0) => Len(log) = 0

(* C5: after run() is called the loop eventually reaches Stopped, no timer *)
(* pending and no further invocation possible, when pending timers fire.   *)
C5_Terminates == (runCalls > 0) ~> LoopStopped

C5_Witness ==
    /\ runCalls > 0 /\ LoopStopped /\ intervalInMs # 0
    /\ Len(log) = MaxAttempts /\ remaining < 0

(* C6: once break() has been called from outside the callback, before      *)
(* run() or while the inter-attempt timer is pending, no callback          *)
(* invocation happens afterwards, even if remaining is still positive.     *)
C6_NoInvocationAfterBreak == extBreakAt # -1 => Len(log) = extBreakAt

C6_Witness ==
    /\ extBreakAt = 1 /\ ~cbBroke /\ timers = 0 /\ remaining > 0
    /\ runCalls = 1 /\ Len(log) = 1

(* C7: a loop that has reached Stopped is terminal: it stays Stopped, the  *)
(* break flag is never cleared, and no later run() call or timer invokes   *)
(* the callback.                                                           *)
C7_StoppedIsTerminal ==
    [][/\ Stopped => (Stopped' /\ log' = log)
       /\ ~qualifier => ~qualifier']_vars

C7_Witness ==
    /\ runCalls = 2 /\ intervalInMs = 0 /\ loopMax = 2
    /\ Len(log) = 2 /\ remaining = -2 /\ qualifier

-----------------------------------------------------------------------------
(* Properties of the readiness poll *)

(* onReady was invoked in some check *)
OnReadyInvoked == \E j \in 1..Len(checks) : checks[j].onReady

(* C17: if the ready flag is first observed true at the k-th check, onReady *)
(* is invoked exactly once, at that check, and no check happens afterwards; *)
(* if it is observed true in none of the 20 checks, onReady is never        *)
(* invoked and exactly 20 checks are made.                                  *)
C17_OnReadyOnceAtFirstReady ==
    /\ Len(checks) <= ReadyAttempts
    /\ \A k \in 1..Len(checks) :
          /\ checks[k].onReady = checks[k].ready
          /\ checks[k].ready => k = Len(checks)
    /\ (runCalls = 1 /\ timers = 0 /\ ~OnReadyInvoked) => Len(checks) = ReadyAttempts

C17_Witness ==
    /\ Len(checks) = 7 /\ checks[7].onReady /\ ~checks[6].ready
    /\ timers = 0 /\ remaining = ReadyAttempts - 8

(* C18: the diagnostic 'failed onReady callback after N attempts' is never *)
(* emitted in a run in which onReady was invoked.                          *)
C18_FailedOnlyWithoutOnReady ==
    \A k \in 1..Len(checks) : checks[k].failed => ~OnReadyInvoked

-----------------------------------------------------------------------------
(* Properties of check *)

(* C19: every predicate of check returns a boolean and never propagates a  *)
(* fault, for any input.                                                   *)
C19_BooleanNoFault ==
    cpred # "none" => (~cres.thrown /\ cres.value.kind = "boolean")

(* C20: for every value v, check.is.safeInteger(v) is true exactly when    *)
(* check.is.safeNumber(v) and check.is.integer(v) are both true.           *)
C20_SafeIntegerIffBoth ==
    cpred = "is.safeInteger"
        => (Truthy(cres) <=> (Truthy(CheckIsSafeNumber(cval)) /\ Truthy(CheckIsInteger(cval))))

C20_Witness ==
    /\ cpred = "is.safeInteger" /\ cval = JSInt(MAX_SAFE_INTEGER)
    /\ cres = Return(JSBool(TRUE))
    /\ ~Truthy(CheckIsSafeInteger(JSBigInt)) /\ Truthy(CheckIsInteger(JSBigInt))

(* A number that is finite and within the safe range *)
FiniteInSafeRange(v) ==
    \/ v.kind = "int" /\ -MAX_SAFE_INTEGER <= v.n /\ v.n <= MAX_SAFE_INTEGER
    \/ v.kind = "frac" /\ -MAX_SAFE_INTEGER <= v.n /\ v.n < MAX_SAFE_INTEGER

(* C21: check.is.safeNumber(v) is true exactly when v is a number, finite  *)
(* and MIN_SAFE_INTEGER <= v <= MAX_SAFE_INTEGER; check.is.number(v) stays *)
(* true for NaN and the infinities.                                        *)
C21_SafeNumberFiniteInRange ==
    /\ cpred = "is.safeNumber" => cres = Return(JSBool(FiniteInSafeRange(cval)))
    /\ (cpred = "is.number" /\ cval \in {JSNaN, JSInfinity, JSNegInfinity})
          => cres = Return(JSBool(TRUE))

C21_Witness ==
    /\ cpred = "is.safeNumber" /\ cval = JSInt(-MAX_SAFE_INTEGER)
    /\ cres = Return(JSBool(TRUE))
    /\ ~Truthy(CheckIsSafeNumber(JSNegBigInt)) /\ ~Truthy(CheckIsSafeNumber(JSNaN))

(* The values that are records: objects holding keys *)
IsRecord(v) == v.kind \in {"object", "instance", "nullproto", "shadow"}

(* C22: for a record r and a key k, check.has.key(r, k) is true when r     *)
(* contains k, whatever the stored value; check.has.valueForKey(r, k) is   *)
(* true exactly when has.key(r, k) is and r[k] exists; both are false for  *)
(* undefined and null.                                                     *)
C22_KeyAndValueForKey ==
    /\ (cpred = "has.key" /\ IsRecord(cval))
          => cres = Return(JSBool(HasOwn(cval, carg)))
    /\ (cpred = "has.valueForKey" /\ IsRecord(cval))
          => cres = Return(JSBool(HasOwn(cval, carg)
                                    /\ Truthy(CheckExists(Get(cval, carg).value))))
    /\ (cpred \in {"has.key", "has.valueForKey"} /\ cval \in {JSUndefined, JSNull})
          => cres = Return(JSBool(FALSE))

(* The predicates that first ask whether the value exists *)
ExistsAndPredicates ==
    {"is.number", "is.safeNumber", "is.integer", "is.safeInteger", "is.function",
     "is.array", "is.genericObject", "is.constructedFrom", "is.arrayOf", "has.key"}

(* C23: for every value exactly one of exists, is.undefined and is.null is *)
(* true, and every predicate defined as 'exists and ...' is false for      *)
(* undefined and for null.                                                 *)
C23_ExistsPartition ==
    /\ cpred = "exists"
          => Cardinality({o \in {<<1, cres>>, <<2, CheckIsUndefined(cval)>>,
                                 <<3, CheckIsNull(cval)>>} : Truthy(o[2])}) = 1
    /\ cpred = "is.undefined" => (Truthy(cres) <=> cval = JSUndefined)
    /\ cpred = "is.null" => (Truthy(cres) <=> cval = JSNull)
    /\ (cpred \in ExistsAndPredicates /\ cval \in {JSUndefined, JSNull})
          => cres = Return(JSBool(FALSE))

C23_Witness ==
    /\ cpred = "is.genericObject" /\ cval = JSNull /\ cres = Return(JSBool(FALSE))
    /\ Truthy(CheckIsNull(cval)) /\ ~Truthy(CheckExists(cval))

-----------------------------------------------------------------------------
(* Properties of the settings of KDSpeechSynth *)

(* The argument of the last setter call passes the setter's validation *)
ValidFor(setting, a) ==
    CASE setting = "voice" -> a.kind = "int"
      [] setting \in {"rate", "pitch", "volume"} -> a.kind \in {"int", "frac", "tenths"}
      [] setting = "text" -> a.kind = "string"
      [] OTHER -> FALSE

(* The stored value of a setting *)
Stored(setting) ==
    CASE setting = "voice" -> selfVoice
      [] setting = "rate" -> selfRate
      [] setting = "pitch" -> selfPitch
      [] setting = "volume" -> selfVolume
      [] OTHER -> selfText

Setters == {"voice", "rate", "pitch", "volume", "text"}

(* C24: a setter called with an argument that fails its validation leaves *)
(* every stored setting unchanged and returns the current value of its    *)
(* setting.                                                               *)
C24_InvalidArgumentIgnored ==
    [][(fop' \in Setters /\ ~ValidFor(fop', farg'[1]))
          => (settingVars' = settingVars /\ fret' = Stored(fop'))]_vars

C24_Witness ==
    /\ fop = "rate" /\ farg = <<JSNaN>> /\ fret = JSFrac(0) /\ selfRate = JSFrac(0)
    /\ selfVolume = JSInt(0) /\ selfText = JSString(1)

(* The limits of a setting, in tenths *)
LowTenths(setting) == IF setting = "rate" THEN 1 ELSE 0
HighTenths(setting) ==
    CASE setting = "rate" -> 100 [] setting = "pitch" -> 20 [] OTHER -> 10

(* A safe number of the model's inputs, in tenths *)
Tenths(a) == IF a.kind = "frac" THEN 10 * a.n + 5 ELSE 10 * a.n

(* The number of so many tenths, as a value *)
OfTenths(t) ==
    IF t % 10 = 0 THEN JSInt(t \div 10)
    ELSE IF t % 10 = 5 THEN JSFrac(t \div 10) ELSE JSTenths(t)

(* C25: rate(x), pitch(x) and volume(x) with a safe number x store and    *)
(* return x clipped to [0.1, 10], [0, 2] and [0, 1]: the lower bound for  *)
(* x below it, the upper bound for x above it, x itself otherwise.        *)
C25_ClippedToRange ==
    (fop \in {"rate", "pitch", "volume"} /\ ValidFor(fop, farg[1]))
        => LET x == Tenths(farg[1])
               clipped == IF x < LowTenths(fop) THEN LowTenths(fop)
                          ELSE IF x > HighTenths(fop) THEN HighTenths(fop) ELSE x
           IN fret = OfTenths(clipped) /\ Stored(fop) = fret

C25_Witness ==
    /\ fop = "rate" /\ farg = <<JSInt(0)>> /\ fret = JSTenths(1)
    /\ selfPitch = JSInt(2) /\ selfVolume = JSFrac(0)

-----------------------------------------------------------------------------
(* Properties of speaking with KDSpeechSynth *)

(* The step is a call of queue or speak *)
SpeakCalled == fop' \in {"queue", "speak"}

(* The step is a call of queue or speak that hands an utterance to the     *)
(* platform: one more than queue found, one after the cancelling of speak. *)
Spoke ==
    /\ SpeakCalled
    /\ Len(utterances') = (IF fop' = "speak" THEN 0 ELSE Len(utterances)) + 1

Last(s) == s[Len(s)]

(* C26: a queue/speak call that submits an utterance with skipHistory      *)
(* false adds exactly one entry to the history, the string that is spoken; *)
(* with skipHistory true the history is unchanged.                         *)
C26_SpokenTextRecorded ==
    [][Spoke => IF ToBoolean(farg'[2]) THEN hist' = hist
                ELSE hist' = Append(hist, Last(utterances').text)]_vars

(* C29: when the synth is ready and a non-empty text is stored, queue or   *)
(* speak called without a text, or with the empty string, speaks the       *)
(* stored text and the stored text is retained.                            *)
C29_EmptyTextSpeaksStored ==
    [][(/\ SpeakCalled /\ ready
        /\ selfText.kind = "string" /\ selfText # JSString(0)
        /\ farg'[1] \in {JSUndefined, JSString(0)})
          => (Spoke /\ Last(utterances').text = selfText /\ selfText' = selfText)]_vars

(* C30: when the synth is ready and the text is valid, after speak(text)   *)
(* the platform queue holds exactly the one new utterance; queue(text)     *)
(* appends behind the utterances already queued, in their order.           *)
C30_SpeakReplacesQueueAppends ==
    [][(SpeakCalled /\ ready /\ farg'[1].kind = "string" /\ farg'[1] # JSString(0))
          => /\ Last(utterances').text = farg'[1]
             /\ fop' = "speak" => Len(utterances') = 1
             /\ fop' = "queue" => SubSeq(utterances', 1, Len(utterances') - 1) = utterances]_vars

C30_Witness ==
    /\ fop = "speak" /\ farg = <<JSString(1), JSBool(TRUE)>> /\ paused
    /\ Len(utterances) = 1 /\ utterances[1].text = JSString(1)
    /\ Len(hist) = 1 /\ selfText = JSString(1)

(* C27: after maxHistory(n) with a positive safe integer n, maxHistory()  *)
(* returns n and from then on history() never holds more than n entries.  *)
C27_MaxHistoryLimits ==
    [][capSet' > 0 => /\ Len(hist') <= capSet'
                      /\ fop' = "maxHistory" => fret' = JSInt(capSet')]_vars

(* C28: clearHistory() makes history() empty, and maxHistory() returns the *)
(* same value right after clearHistory() as right before it.               *)
C28_ClearKeepsMaximum ==
    [][fop' = "clearHistory" => (hist' = <<>> /\ hmax' = hmax)]_vars

-----------------------------------------------------------------------------
(* Properties of the voices of KDSpeechSynth *)

(* C31: on every voiceschanged event the internal voice list and the ready *)
(* flag are refreshed from the platform, whether or not a user callback is *)
(* registered and before that callback runs; isReady() is true exactly     *)
(* when the internal voice list is non-empty.                              *)
C31_VoicesRefreshed ==
    [][/\ ready' = (voices' > 0)
       /\ fop' = "isReady" => fret' = JSBool(voices' > 0)
       /\ fop' = "voiceschanged"
             => /\ voices' = farg'[1].n
                /\ callsBack => heard' = <<voices', ready'>>]_vars

C31_Witness ==
    /\ fop = "voiceschanged" /\ farg = <<JSInt(0)>> /\ voices = 0 /\ ~ready
    /\ callsBack /\ heard = <<0, FALSE>> /\ utterances # <<>>

-----------------------------------------------------------------------------
(* Properties of KDLoop under repeated run() calls *)

(* The attempts the loop was configured with: 1 when none were given, and *)
(* none for a negative number                                              *)
Configured ==
    IF attemptsArg = JSUndefined THEN 1
    ELSE IF attemptsArg.n < 0 THEN 0 ELSE attemptsArg.n

(* C32: the total number of callback invocations never exceeds the        *)
(* configured attempts, for any number of run() calls, from outside or    *)
(* from inside the callback, and any interleaving of the timers.          *)
C32_NeverMoreThanAttempts == Len(log) <= Configured

(* The attempts are exhausted: the callback has been invoked N times *)
Exhausted == Len(log) = attemptsArg.n

(* C33: with attempts = N >= 1, 0 <= remaining <= N in every reachable    *)
(* state; remaining is N before the first run() and 0 once the attempts   *)
(* are exhausted.                                                         *)
C33_RemainingWithinBounds ==
    AttemptsAtLeastOne
        => /\ 0 <= remaining /\ remaining <= attemptsArg.n
           /\ runCalls = 0 => remaining = attemptsArg.n
           /\ Exhausted => remaining = 0

-----------------------------------------------------------------------------
(* Properties of queue and speak when nothing is spoken *)

(* C34: queue(text, ...) called while the synth is not ready changes       *)
(* nothing: the stored text, the history, the history maximum and the      *)
(* platform utterance queue are the same after the call as before it.      *)
C34_NotReadyQueueChangesNothing ==
    [][(fop' = "queue" /\ ~ready)
          => UNCHANGED <<selfText, hist, hmax, utterances>>]_vars

C34_Witness ==
    /\ fop = "queue" /\ farg = <<JSString(1), JSUndefined>> /\ ~ready
    /\ selfText = JSString(2) /\ Len(utterances) = 1 /\ Len(hist) = 1

(* C35: if a speak call ends without queuing a new utterance (synth not    *)
(* ready, or no non-empty text available), the speech in progress and the  *)
(* utterances already queued are not cancelled.                            *)
C35_SpeakAllOrNothing ==
    [][(fop' = "speak" /\ ~Submits(farg'[1])) => utterances' = utterances]_vars

-----------------------------------------------------------------------------
(* Properties of the utterances handed to the platform *)

(* A stored number, in tenths *)
InTenths(v) == IF v.kind = "tenths" THEN v.n ELSE Tenths(v)

(* The value is a number within the range of the setting *)
WithinRange(setting, v) ==
    /\ v.kind \in {"int", "frac", "tenths"}
    /\ LowTenths(setting) <= InTenths(v)
    /\ InTenths(v) <= HighTenths(setting)

(* C36: every utterance handed to the platform carries rate in [0.1, 10],  *)
(* pitch in [0, 2] and volume in [0, 1], in every reachable state, also    *)
(* when the values come from the constructor parameters and no setter has  *)
(* been called.                                                            *)
C36_UtteranceSettingsInRange ==
    \A i \in DOMAIN utterances :
        /\ WithinRange("rate", utterances[i].rate)
        /\ WithinRange("pitch", utterances[i].pitch)
        /\ WithinRange("volume", utterances[i].volume)

(* The stored index selects one of the voices *)
IndexWithinList == selfVoice.kind = "int" /\ 0 <= selfVoice.n /\ selfVoice.n < voices

(* C37: every utterance queued while the voice list is non-empty is        *)
(* assigned a voice of that list: the voice at the selected index when the *)
(* index is within 0..length-1, and the first voice for every other stored *)
(* index (equal to the length, larger, or negative).                       *)
C37_VoiceFromList ==
    [][(Spoke /\ voices > 0)
          => Last(utterances').voice = (IF IndexWithinList THEN selfVoice ELSE JSInt(0))]_vars

-----------------------------------------------------------------------------
(* Properties of the construction of KDSpeechSynth *)

(* The step is the end of the constructor: loop.run() of init.onReadyCheck, *)
(* after which init.run() and the constructor return                        *)
ConstructorEnds == runCalls = 0 /\ runCalls' = 1

(* C38: params.onReady is never invoked before the constructor has         *)
(* returned: the first readiness check happens in a later scheduler turn,  *)
(* also when voices are available at construction time.                    *)
C38_OnReadyAfterConstruction ==
    [][ConstructorEnds => \A k \in 1..Len(checks') : ~checks'[k].onReady]_vars

-----------------------------------------------------------------------------
(* Properties of a KDSpeechSynth constructed with a history limit *)

(* C39: constructed with maxHistory = n, a positive safe integer, the      *)
(* history is bounded by n from construction on: maxHistory() returns n    *)
(* and history() never holds more than n entries, before and after any     *)
(* clearHistory() call.                                                    *)
C39_BoundedFromConstruction ==
    /\ Len(hist) <= selfMaxHistory.n
    /\ fop = "maxHistory" => fret = selfMaxHistory

=============================================================================
